---- MODULE Spec2Model ----
(***************************************************************************)
(* A model of internal/pkg/generator/generator.go: the backend dispatcher  *)
(* Generate, the template engine GenerateByTmpl, the aggregate path        *)
(* GenerateMeta and the line mapper ErrorLine.                             *)
(*                                                                         *)
(* Text is a sequence of one-character strings; a literal of the source    *)
(* that is never inspected character by character is kept as one element.  *)
(***************************************************************************)
EXTENDS Integers, Sequences, FiniteSets, TLC

VARIABLES
    fn,         \* the entry point running: "Generate", "GenerateMeta", "ErrorLine"
    cl,         \* the record package: [Namespace, Backends]
    i,          \* Generate: number of backends of cl.Backends already completed
    pc,         \* position inside the running entry point
    queue,      \* GenerateOctopus: the named outputs still to render
    generated,  \* Generate: the keys of the map returned by GenerateOctopus
    pending,    \* Generate: keys of generated the range loop has not visited
    ret,        \* returned artifact list
    err,        \* returned error
    trace,      \* history of the stages performed (parse, execute, format, assemble)
    errIn,      \* ErrorLine: the error message handed in
    genData,    \* ErrorLine: the text the locator indexes into
    result      \* ErrorLine: what the call produced

vars == <<fn, cl, i, pc, queue, generated, pending, ret, err, trace, errIn, genData, result>>

(***************************************************************************)
(* Bounds of the model.                                                    *)
(***************************************************************************)
MaxBackends == 2
MaxOutputs == 2
MaxLines == 4
MaxNum == 5

Nil == [kind |-> "nil"]

(***************************************************************************)
(* Text helpers: strings.Split, strings.Trim, strings.Repeat, %d.          *)
(***************************************************************************)
Digits == <<"0", "1", "2", "3", "4", "5", "6", "7", "8", "9">>

IsDigit(c) == \E d \in 1..10 : Digits[d] = c

DigitVal(c) == (CHOOSE d \in 1..10 : Digits[d] = c) - 1

RECURSIVE Itoa(_)
Itoa(n) == IF n < 10 THEN <<Digits[n + 1]>> ELSE Itoa(n \div 10) \o <<Digits[(n % 10) + 1]>>

RECURSIVE Split(_, _)
Split(s, sep) ==
    IF \A j \in 1..Len(s) : s[j] # sep
    THEN <<s>>
    ELSE LET p == CHOOSE j \in 1..Len(s) : s[j] = sep /\ \A q \in 1..(j - 1) : s[q] # sep
         IN <<SubSeq(s, 1, p - 1)>> \o Split(SubSeq(s, p + 1, Len(s)), sep)

RECURSIVE TrimLeft(_, _)
TrimLeft(s, c) == IF s # <<>> /\ Head(s) = c THEN TrimLeft(Tail(s), c) ELSE s

RECURSIVE TrimRight(_, _)
TrimRight(s, c) ==
    IF s # <<>> /\ s[Len(s)] = c THEN TrimRight(SubSeq(s, 1, Len(s) - 1), c) ELSE s

Trim(s, c) == TrimRight(TrimLeft(s, c), c)

Repeat(c, n) == [j \in 1..n |-> c]

(***************************************************************************)
(* errImportsRx = ^(\d+):(\d+): and strconv.Atoi.                          *)
(***************************************************************************)
RECURSIVE DigitRun(_, _)
DigitRun(s, from) ==
    IF from <= Len(s) /\ IsDigit(s[from]) THEN 1 + DigitRun(s, from + 1) ELSE 0

FindStringSubmatch(s) ==
    LET n1 == DigitRun(s, 1)
        n2 == DigitRun(s, n1 + 2)
    IN IF /\ n1 > 0
          /\ Len(s) >= n1 + 1
          /\ s[n1 + 1] = ":"
          /\ n2 > 0
          /\ Len(s) >= n1 + n2 + 2
          /\ s[n1 + n2 + 2] = ":"
       THEN <<SubSeq(s, 1, n1 + n2 + 2), SubSeq(s, 1, n1), SubSeq(s, n1 + 2, n1 + n2 + 1)>>
       ELSE <<>>

IntMaxDigits ==
    <<"9", "2", "2", "3", "3", "7", "2", "0", "3", "6", "8", "5", "4", "7", "7", "5", "8", "0", "7">>

RECURSIVE DigitsLeq(_, _)
DigitsLeq(a, b) ==
    \/ a = <<>>
    \/ DigitVal(Head(a)) < DigitVal(Head(b))
    \/ Head(a) = Head(b) /\ DigitsLeq(Tail(a), Tail(b))

RECURSIVE Value(_)
Value(s) == IF s = <<>> THEN 0 ELSE 10 * Value(SubSeq(s, 1, Len(s) - 1)) + DigitVal(s[Len(s)])

Atoi(s) ==
    LET sig == TrimLeft(s, "0")
        fits == \/ Len(sig) < Len(IntMaxDigits)
                \/ Len(sig) = Len(IntMaxDigits) /\ DigitsLeq(sig, IntMaxDigits)
    IN IF fits THEN [ok |-> TRUE, val |-> Value(sig)] ELSE [ok |-> FALSE, val |-> 0]

(***************************************************************************)
(* errors.Wrap and ErrorLine.                                              *)
(***************************************************************************)
\* errors.New(msg) in place of errors.Wrap: the original error is dropped
WrapDiscard(e, msg) == [kind |-> "error", text |-> msg, msg |-> msg, cause |-> <<>>]

Wrap(e, msg) == [kind |-> "error", text |-> msg \o <<": ">> \o e, msg |-> msg, cause |-> e]

Panic(what) == [kind |-> "panic", what |-> what]

\* a Go slice: the elements of a sequence indexed from 0
Slice(s) == [j \in 0..(Len(s) - 1) |-> s[j + 1]]

SliceLen(a) == Cardinality(DOMAIN a)

InRange(a, j) == j \in DOMAIN a

\* the trailing line taken at lineNum-1: the fault line once more
SnippetRepeatsLine(lines, lineNum, line, byteNum) ==
    <<"\n">> \o Trim(lines[lineNum - 2], "\t") \o <<"\n">> \o Trim(line, "\t") \o <<"\n">>
        \o Repeat(" ", byteNum - 1) \o <<"^^^^^">> \o <<"\n">> \o Trim(lines[lineNum - 1], "\t")

Snippet(lines, lineNum, line, byteNum) ==
    <<"\n">> \o Trim(lines[lineNum - 2], "\t") \o <<"\n">> \o Trim(line, "\t") \o <<"\n">>
        \o Repeat(" ", byteNum - 1) \o <<"^^^^^">> \o <<"\n">> \o Trim(lines[lineNum], "\t")

ErrorLine(e, data) ==
    LET findErr == FindStringSubmatch(e)
    IN IF Len(findErr) = 3
       THEN LET lineNum == Atoi(findErr[2])
                lines == Slice(Split(data, "\n"))
                line == lines[lineNum.val - 1]
                byteNum == Atoi(findErr[3])
            IN IF ~lineNum.ok THEN Wrap(e, <<"can't unparse error line num">>)
               ELSE IF SliceLen(lines) < lineNum.val
               THEN Wrap(e, <<"line num ">> \o Itoa(lineNum.val) \o <<" not found (total ">>
                                \o Itoa(SliceLen(lines)) \o <<")">>)
               ELSE IF ~InRange(lines, lineNum.val - 1) THEN Panic("index out of range")
               ELSE IF ~byteNum.ok
               THEN Wrap(e, <<"can't unparse error byte num in line: ">> \o line)
               ELSE IF Len(line) < byteNum.val
               THEN Wrap(e, <<"byte num not found in line: ">> \o line)
               ELSE IF ~InRange(lines, lineNum.val - 2) THEN Panic("index out of range")
               ELSE IF byteNum.val - 1 < 0 THEN Panic("negative Repeat count")
               ELSE IF ~InRange(lines, lineNum.val) THEN Panic("index out of range")
               ELSE Wrap(e, Snippet(lines, lineNum.val, line, byteNum.val))
       ELSE Wrap(e, <<"cant parse error message">>)

(***************************************************************************)
(* Inputs of ErrorLine: source texts of 1..MaxLines lines and messages     *)
(* with and without a leading locator.                                     *)
(***************************************************************************)
LineSet == {<<>>, <<"a">>, <<"\t", "b", "\t">>, <<"c", "d">>}

RECURSIVE Join(_, _)
Join(ls, sep) ==
    IF Len(ls) = 1 THEN ls[1] ELSE ls[1] \o <<sep>> \o Join(Tail(ls), sep)

Texts == UNION {{Join(f, "\n") : f \in [1..n -> LineSet]} : n \in 1..MaxLines}

TooBig == [j \in 1..20 |-> "9"]

NumStrs == {Itoa(n) : n \in 0..MaxNum} \cup {<<"0", "2">>, TooBig}

Boom == <<" ", "b", "o", "o", "m">>

Malformed ==
    {<<>>, Boom, <<"2", ":", "1">> \o Boom, <<":", "1", ":">> \o Boom, <<"2", ":", ":">> \o Boom,
     <<" ", "2", ":", "1", ":">> \o Boom, <<"2", "a", ":", "1", ":">> \o Boom}

Messages == {k \o <<":">> \o c \o <<":">> \o Boom : k \in NumStrs, c \in NumStrs} \cup Malformed

Idle ==
    /\ cl = [Namespace |-> [PublicName |-> "", PackageName |-> ""], Backends |-> <<>>]
    /\ i = 0
    /\ queue = <<>>
    /\ generated = {}
    /\ pending = {}
    /\ ret = <<>>
    /\ err = Nil
    /\ trace = <<>>

InitErrorLine ==
    /\ fn = "ErrorLine"
    /\ pc = "call"
    /\ errIn \in Messages
    /\ genData \in Texts
    /\ result = Nil
    /\ Idle

ErrorLineCall ==
    /\ fn = "ErrorLine"
    /\ pc = "call"
    /\ result' = ErrorLine(errIn, genData)
    /\ pc' = IF result'.kind = "panic" THEN "panic" ELSE "done"
    /\ UNCHANGED <<fn, cl, i, queue, generated, pending, ret, err, trace, errIn, genData>>

NextErrorLine == ErrorLineCall

SpecErrorLine == InitErrorLine /\ [][NextErrorLine]_vars

(***************************************************************************)
(* Generate, GenerateMeta and GenerateByTmpl.                              *)
(***************************************************************************)
Namespaces ==
    {[PublicName |-> "Foo", PackageName |-> "foo"], [PublicName |-> "Bar", PackageName |-> "bar"]}

BackendNames ==
    {"octopus", "tarantool15", "tarantool16", "tarantool2", "postgres", "Octopus", "mysql", ""}

Packages ==
    {[Namespace |-> ns, Backends |-> bs] :
        ns \in Namespaces, bs \in UNION {[1..n -> BackendNames] : n \in 0..MaxBackends}}

\* the named outputs GenerateOctopus renders, in the order it renders them
OutputNames == <<"octopus", "mock", "fixture">>

OctopusOutputs(n) == SubSeq(OutputNames, 1, n)

\* the bytes a template rendered, and what imports.Process makes of them
RawText == Join(<<<<"a">>, <<"\t", "b">>, <<"c">>>>, "\n")

Process(raw) == [formatted |-> raw]

\* the messages a failing imports.Process reports
FormatErrs == {<<"2", ":", "1", ":">> \o Boom, <<"1", ":", "1", ":">> \o Boom, Boom}

ErrGeneratorFile(name, backend, filename, e) ==
    [kind |-> "ErrGeneratorFile", Name |-> name, Backend |-> backend, Filename |-> filename,
     Err |-> e]

ErrGeneratorPhases(backend, phase) ==
    [kind |-> "ErrGeneratorPhases", Name |-> "", Backend |-> backend, Phase |-> phase]

\* the sentinel errors of package arerror
ErrGeneratorBackendNotImplemented == [kind |-> "sentinel", name |-> "backend not implemented"]

ErrGeneratorBackendUnknown == [kind |-> "sentinel", name |-> "backend unknown"]

Event(ev, b, out, ok) == [ev |-> ev, b |-> b, out |-> out, ok |-> ok]

InitGenerate ==
    /\ fn = "Generate"
    /\ cl \in Packages
    /\ pc = "loop"

InitGenerateMeta ==
    /\ fn = "GenerateMeta"
    /\ cl = [Namespace |-> [PublicName |-> "", PackageName |-> ""], Backends |-> <<>>]
    /\ pc = "parse"

Init ==
    /\ InitGenerate \/ InitGenerateMeta
    /\ i = 0
    /\ queue = <<>>
    /\ generated = {}
    /\ pending = {}
    /\ ret = <<>>
    /\ err = Nil
    /\ trace = <<>>
    /\ errIn = <<>>
    /\ genData = <<>>
    /\ result = Nil

\* case "tarantool16" grouped with the implemented family
ResolveSixteenImplemented(backend) ==
    CASE backend = "tarantool15" -> "implemented"
      [] backend = "octopus" -> "implemented"
      [] backend = "tarantool16" -> "implemented"
      [] backend = "tarantool2" -> "notimplemented"
      [] backend = "postgres" -> "notimplemented"
      [] OTHER -> "unknown"

\* the identifier matched without regard to case
ResolveFold(backend) ==
    CASE backend \in {"tarantool15", "Tarantool15"} -> "implemented"
      [] backend \in {"octopus", "Octopus"} -> "implemented"
      [] backend \in {"tarantool16", "Tarantool16"} -> "notimplemented"
      [] backend \in {"tarantool2", "Tarantool2"} -> "notimplemented"
      [] backend \in {"postgres", "Postgres"} -> "notimplemented"
      [] OTHER -> "unknown"

\* the switch of Generate
Resolve(backend) ==
    CASE backend = "tarantool15" -> "implemented"
      [] backend = "octopus" -> "implemented"
      [] backend = "tarantool16" -> "notimplemented"
      [] backend = "tarantool2" -> "notimplemented"
      [] backend = "postgres" -> "notimplemented"
      [] OTHER -> "unknown"

Backend == cl.Backends[i + 1]

\* an empty result reported as a failure
GenerateReturnEmptyFails ==
    /\ fn = "Generate"
    /\ pc = "loop"
    /\ i = Len(cl.Backends)
    /\ pc' = "done"
    /\ err' = IF ret = <<>>
              THEN ErrGeneratorFile(cl.Namespace.PublicName, "", "", ErrGeneratorBackendUnknown)
              ELSE Nil
    /\ UNCHANGED <<fn, cl, i, queue, generated, pending, ret, trace, errIn, genData, result>>

\* for range cl.Backends is exhausted: return ret, nil
GenerateReturn ==
    /\ fn = "Generate"
    /\ pc = "loop"
    /\ i = Len(cl.Backends)
    /\ pc' = "done"
    /\ err' = Nil
    /\ UNCHANGED <<fn, cl, i, queue, generated, pending, ret, trace, errIn, genData, result>>

\* case "tarantool15", "octopus": GenerateOctopus(params) is entered
DispatchImplemented ==
    /\ fn = "Generate"
    /\ pc = "loop"
    /\ i < Len(cl.Backends)
    /\ Resolve(Backend) = "implemented"
    /\ \E n \in 1..MaxOutputs :
          /\ n <= Len(OutputNames)
          /\ queue' = OctopusOutputs(n)
    /\ generated' = {}
    /\ pc' = "parse"
    /\ UNCHANGED <<fn, cl, i, pending, ret, err, trace, errIn, genData, result>>

\* case "tarantool16", "tarantool2", "postgres"
DispatchNotImplemented ==
    /\ fn = "Generate"
    /\ pc = "loop"
    /\ i < Len(cl.Backends)
    /\ Resolve(Backend) = "notimplemented"
    /\ ret' = <<>>
    /\ err' = ErrGeneratorFile(cl.Namespace.PublicName, Backend, "",
                               ErrGeneratorBackendNotImplemented)
    /\ pc' = "done"
    /\ UNCHANGED <<fn, cl, i, queue, generated, pending, trace, errIn, genData, result>>

\* default
DispatchUnknown ==
    /\ fn = "Generate"
    /\ pc = "loop"
    /\ i < Len(cl.Backends)
    /\ Resolve(Backend) = "unknown"
    /\ ret' = <<>>
    /\ err' = ErrGeneratorFile(cl.Namespace.PublicName, Backend, "", ErrGeneratorBackendUnknown)
    /\ pc' = "done"
    /\ UNCHANGED <<fn, cl, i, queue, generated, pending, trace, errIn, genData, result>>

\* the output GenerateByTmpl is rendering, and the backend occurrence it is for
CurOut == IF fn = "GenerateMeta" THEN "meta" ELSE Head(queue)

CurB == IF fn = "GenerateMeta" THEN 0 ELSE i + 1

TmplName == IF fn = "GenerateMeta" THEN "meta" ELSE "octopus"

\* GenerateByTmpl returned an error to its caller
RenderFailed(phase) ==
    /\ ret' = <<>>
    /\ err' = IF fn = "GenerateMeta"
              THEN ErrGeneratorFile("repository.go", "meta", "repository.go",
                                    ErrGeneratorPhases(TmplName, phase))
              ELSE [ErrGeneratorPhases(TmplName, phase) EXCEPT !.Name = cl.Namespace.PublicName]
    /\ pc' = "done"
    /\ UNCHANGED <<queue, generated, pending>>

\* GenerateOctopus after one output rendered: the next output, or the map is returned
OctopusRendered ==
    /\ generated' = generated \cup {Head(queue)}
    /\ queue' = Tail(queue)
    /\ IF Tail(queue) = <<>>
       THEN pc' = "range" /\ pending' = generated \cup {Head(queue)}
       ELSE pc' = "parse" /\ pending' = pending
    /\ UNCHANGED <<ret, err>>

\* GenerateMeta after GenerateByTmpl returned nil
MetaRendered ==
    /\ pc' = "format"
    /\ UNCHANGED <<queue, generated, pending, ret, err>>

\* GenerateByTmpl: template...Parse(disclaimer + tmpl)
TmplParse ==
    /\ fn \in {"Generate", "GenerateMeta"}
    /\ pc = "parse"
    /\ \E ok \in BOOLEAN :
          /\ trace' = Append(trace, Event("parse", CurB, CurOut, ok))
          /\ IF ok
             THEN pc' = "execute" /\ UNCHANGED <<queue, generated, pending, ret, err>>
             ELSE RenderFailed("parse")
    /\ UNCHANGED <<fn, cl, i, errIn, genData, result>>

\* GenerateByTmpl: templatePackage.Execute(dstFile, params)
TmplExecute ==
    /\ fn \in {"Generate", "GenerateMeta"}
    /\ pc = "execute"
    /\ \E ok \in BOOLEAN :
          /\ trace' = Append(trace, Event("execute", CurB, CurOut, ok))
          /\ IF ~ok THEN RenderFailed("execute")
             ELSE IF fn = "GenerateMeta" THEN MetaRendered
             ELSE OctopusRendered
    /\ UNCHANGED <<fn, cl, i, errIn, genData, result>>

\* the artifact tagged with the generator family instead of the declared identifier
GenResFamilyBackend(name, backend) ==
    [Dir |-> cl.Namespace.PackageName, Name |-> name \o ".go", Backend |-> "octopus",
     Data |-> Process(RawText).formatted]

GenRes(name, backend) ==
    [Dir |-> cl.Namespace.PackageName, Name |-> name \o ".go", Backend |-> backend,
     Data |-> Process(RawText).formatted]

\* return ret, err: the artifacts assembled so far are handed back with the error
FormatFailedPartial(name, r) ==
    IF r.kind = "panic"
    THEN pc' = "panic" /\ UNCHANGED <<ret, err, pending>>
    ELSE /\ ret' = ret
         /\ err' = ErrGeneratorFile(cl.Namespace.PublicName, Backend, name \o ".go", r)
         /\ pc' = "done"
         /\ UNCHANGED pending

\* continue: the failed output is skipped and the loop goes on
FormatFailedContinue(name, r) ==
    /\ pending' = pending \ {name}
    /\ pc' = "range"
    /\ UNCHANGED <<ret, err>>

\* imports.Process failed in the range loop: ErrorLine, then return nil, &ErrGeneratorFile
FormatFailed(name, r) ==
    IF r.kind = "panic"
    THEN pc' = "panic" /\ UNCHANGED <<ret, err, pending>>
    ELSE /\ ret' = <<>>
         /\ err' = ErrGeneratorFile(cl.Namespace.PublicName, Backend, name \o ".go", r)
         /\ pc' = "done"
         /\ UNCHANGED pending

\* one iteration of for name, data := range generated
FormatStep ==
    /\ fn = "Generate"
    /\ pc = "range"
    /\ \E name \in pending :
          \/ /\ ret' = Append(ret, GenRes(name, Backend))
             /\ err' = Nil
             /\ pending' = pending \ {name}
             /\ pc' = "range"
             /\ trace' = trace \o <<Event("format", i + 1, name, TRUE),
                                    Event("assemble", i + 1, name, TRUE)>>
          \/ \E m \in FormatErrs :
                /\ FormatFailed(name, ErrorLine(m, RawText))
                /\ trace' = Append(trace, Event("format", i + 1, name, FALSE))
    /\ UNCHANGED <<fn, cl, i, queue, generated, errIn, genData, result>>

\* the range loop is over: the next backend
RangeEnd ==
    /\ fn = "Generate"
    /\ pc = "range"
    /\ pending = {}
    /\ i' = i + 1
    /\ pc' = "loop"
    /\ UNCHANGED <<fn, cl, queue, generated, pending, ret, err, trace, errIn, genData, result>>

\* GenerateMeta: imports.Process, then the one artifact
MetaFormat ==
    /\ fn = "GenerateMeta"
    /\ pc = "format"
    /\ \/ /\ ret' = <<[Dir |-> "", Name |-> "repository.go", Backend |-> "meta",
                       Data |-> Process(RawText).formatted]>>
          /\ err' = Nil
          /\ pc' = "done"
          /\ trace' = trace \o <<Event("format", 0, "meta", TRUE),
                                 Event("assemble", 0, "meta", TRUE)>>
       \/ \E m \in FormatErrs :
             LET r == ErrorLine(m, RawText)
             IN /\ IF r.kind = "panic"
                   THEN pc' = "panic" /\ UNCHANGED <<ret, err>>
                   ELSE /\ ret' = <<>>
                        /\ err' = ErrGeneratorFile("repository.go", "meta", "repository.go", r)
                        /\ pc' = "done"
                /\ trace' = Append(trace, Event("format", 0, "meta", FALSE))
    /\ UNCHANGED <<fn, cl, i, queue, generated, pending, errIn, genData, result>>

Next ==
    \/ GenerateReturn
    \/ DispatchImplemented
    \/ DispatchNotImplemented
    \/ DispatchUnknown
    \/ TmplParse
    \/ TmplExecute
    \/ FormatStep
    \/ RangeEnd
    \/ MetaFormat

Spec == Init /\ [][Next]_vars

(***************************************************************************)
(* Properties of Generate and GenerateMeta (under Spec).                   *)
(***************************************************************************)
Generating == fn = "Generate"

\* Generate returned while backend occurrence i+1 was being handled
ReturnedAt == Generating /\ pc = "done" /\ i < Len(cl.Backends)

UnimplementedIds == {"tarantool16", "tarantool2", "postgres"}

ImplementedIds == {"tarantool15", "octopus"}

EventsOf(b) == {j \in 1..Len(trace) : trace[j].b = b}

\* C1: when Generate dispatches a recognized-but-unimplemented identifier it returns no
\* artifacts and the 'backend not implemented' error carrying the package's display
\* name and the backend string, and the rendering engine is never invoked for it.
C1_NotImplemented ==
    (Generating /\ i < Len(cl.Backends) /\ Backend \in UnimplementedIds) =>
        /\ pc \in {"loop", "done"}
        /\ EventsOf(i + 1) = {}
        /\ pc = "done" =>
              /\ ret = <<>>
              /\ err = ErrGeneratorFile(cl.Namespace.PublicName, Backend, "",
                                        ErrGeneratorBackendNotImplemented)

C1_Witness ==
    /\ ReturnedAt
    /\ i >= 1
    /\ Backend = "tarantool16"
    /\ err.kind = "ErrGeneratorFile"
    /\ err.Err = ErrGeneratorBackendNotImplemented

UnknownError ==
    /\ ret = <<>>
    /\ err = ErrGeneratorFile(cl.Namespace.PublicName, Backend, "", ErrGeneratorBackendUnknown)

\* C2 as stated: the vocabulary is the two implemented aliases and exactly two
\* unimplemented identifiers; dispatch of any identifier outside these four fails with
\* 'unknown backend' carrying the display name and the backend string, with no artifacts.
C2_FourIdentifiers ==
    (ReturnedAt /\ Backend \notin (ImplementedIds \cup {"tarantool16", "tarantool2"})) =>
        UnknownError

\* C2 amended: the vocabulary is the two implemented aliases and exactly three
\* unimplemented identifiers (tarantool16, tarantool2, postgres), matched as exact
\* case-sensitive strings; dispatch of any identifier outside these five fails with
\* 'unknown backend' carrying the display name and the backend string, with no artifacts.
C2_FiveIdentifiers ==
    (Generating /\ i < Len(cl.Backends)) =>
        /\ Backend \notin (ImplementedIds \cup UnimplementedIds) =>
              /\ pc \in {"loop", "done"}
              /\ pc = "done" => UnknownError
        /\ (Backend \in UnimplementedIds /\ pc = "done") =>
              err.Err = ErrGeneratorBackendNotImplemented
        /\ (Backend \in ImplementedIds /\ pc = "done") =>
              /\ err # Nil
              /\ err.kind = "ErrGeneratorFile" =>
                    err.Err \notin {ErrGeneratorBackendNotImplemented,
                                    ErrGeneratorBackendUnknown}

C2_Witness == ReturnedAt /\ i >= 1 /\ Backend = "Octopus" /\ UnknownError

\* C3: the first backend whose resolution, rendering or formatting fails aborts
\* Generate: whenever the returned error is non-nil the returned list is empty, even
\* after earlier backends produced artifacts, and the error carries the display name.
C3_NoPartialResult ==
    (Generating /\ pc = "done" /\ err # Nil) =>
        /\ ret = <<>>
        /\ err.Name = cl.Namespace.PublicName
        /\ i < Len(cl.Backends)
        /\ \A j \in 1..Len(trace) : trace[j].b <= i + 1

C3_Witness ==
    /\ Generating
    /\ pc = "done"
    /\ err # Nil
    /\ i >= 1
    /\ \E j \in 1..Len(trace) : trace[j].ev = "assemble" /\ trace[j].b <= i

\* the outputs rendered, in the order the generator produced them
Produced == SelectSeq(trace, LAMBDA e : e.ev = "execute" /\ e.ok)

Succeeded == Generating /\ pc = "done" /\ err = Nil

\* C7 as stated: on success the list is the concatenation, in declaration order of the
\* backend list, of each occurrence's artifacts, the outputs of one backend in the
\* order the generator produced them, each with Dir = internal name, Name = key + '.go'
\* and Backend = the identifier as declared.
C7_ProducedOrder ==
    Succeeded =>
        /\ Len(ret) = Len(Produced)
        /\ \A k \in 1..Len(ret) :
              ret[k] = [Dir |-> cl.Namespace.PackageName, Name |-> Produced[k].out \o ".go",
                        Backend |-> cl.Backends[Produced[k].b], Data |-> ret[k].Data]

\* C7 amended: as stated, except that the outputs of one backend occurrence appear in
\* an unspecified order (the iteration order of the generated map), each key once.
C7_DeclarationOrder ==
    Succeeded =>
        /\ Len(ret) = Len(Produced)
        /\ \A k \in 1..Len(ret) :
              /\ ret[k].Dir = cl.Namespace.PackageName
              /\ ret[k].Backend = cl.Backends[Produced[k].b]
              /\ \E k2 \in 1..Len(ret) :
                    /\ Produced[k2].b = Produced[k].b
                    /\ ret[k].Name = Produced[k2].out \o ".go"
              /\ \A k2 \in 1..Len(ret) :
                    (k2 # k /\ Produced[k2].b = Produced[k].b) => ret[k2].Name # ret[k].Name

C7_Witness ==
    /\ Succeeded
    /\ Len(cl.Backends) = 2
    /\ cl.Backends[1] = cl.Backends[2]
    /\ Len(ret) = 4
    /\ ret[1].Name = "mock.go"
    /\ ret[3].Name = "octopus.go"

\* C8: for an empty backend list Generate returns an empty list and no error, without
\* invoking the rendering engine or the formatter.
C8_EmptyBackends ==
    (Generating /\ cl.Backends = <<>>) =>
        /\ pc \in {"loop", "done"}
        /\ trace = <<>>
        /\ pc = "done" => (ret = <<>> /\ err = Nil)

C8_Witness == Generating /\ cl.Backends = <<>> /\ pc = "done"

Before(j, ev) ==
    \E j2 \in 1..(j - 1) :
        trace[j2] = Event(ev, trace[j].b, trace[j].out, TRUE)

JustBefore(j, ev) == j > 1 /\ trace[j - 1] = Event(ev, trace[j].b, trace[j].out, TRUE)

\* C9: in every run of Generate and GenerateMeta an output is executed only right
\* after its successful parse, formatted only after its rendering succeeded and
\* assembled only right after its formatting succeeded; a failed stage is the last
\* stage performed and leaves the run terminated.
C9_StageOrder ==
    \A j \in 1..Len(trace) :
        /\ trace[j].ev = "execute" => JustBefore(j, "parse")
        /\ trace[j].ev = "format" => Before(j, "execute")
        /\ trace[j].ev = "assemble" => JustBefore(j, "format")
        /\ ~trace[j].ok =>
              /\ j = Len(trace)
              /\ pc \in {"done", "panic"}
              /\ pc = "done" => (err # Nil /\ ret = <<>>)

C9_Witness ==
    /\ Generating
    /\ pc = "done"
    /\ Len(trace) >= 5
    /\ trace[Len(trace)] = Event("format", i + 1, "octopus", FALSE)
    /\ trace[Len(trace) - 1].ev = "assemble"

(***************************************************************************)
(* Properties of ErrorLine (under SpecErrorLine).                          *)
(***************************************************************************)
Returned == fn = "ErrorLine" /\ pc # "call"

HasLocator == Len(FindStringSubmatch(errIn)) = 3

LocLine == Atoi(FindStringSubmatch(errIn)[2])

LocByte == Atoi(FindStringSubmatch(errIn)[3])

\* the lines of the text, numbered from 1 as the locator numbers them
TextLines == Split(genData, "\n")

NumLines == Len(TextLines)

\* a locator for which the four-line snippet is built
SnippetCase ==
    /\ HasLocator
    /\ LocLine.ok
    /\ LocByte.ok
    /\ 2 <= LocLine.val
    /\ LocLine.val <= NumLines - 1
    /\ LocByte.val <= Len(TextLines[LocLine.val])

ExpectedSnippet ==
    <<"\n">> \o Trim(TextLines[LocLine.val - 1], "\t")
        \o <<"\n">> \o Trim(TextLines[LocLine.val], "\t")
        \o <<"\n">> \o [j \in 1..(LocByte.val - 1) |-> " "] \o <<"^^^^^">>
        \o <<"\n">> \o Trim(Slice(TextLines)[LocLine.val], "\t")

\* C4: for a text of N lines and a locator k:c: with 2 <= k <= N-1 and c <= len(line k),
\* ErrorLine returns an error wrapping the original whose message is line k-1, line k,
\* a caret line of c-1 spaces and ^^^^^, and the element at 0-based index k, tab-trimmed.
C4_SnippetForEveryColumn ==
    (Returned /\ SnippetCase) =>
        /\ result.kind = "error"
        /\ result.cause = errIn
        /\ result.msg = ExpectedSnippet

\* the last line of a multi-line message
LastLine(msg) == LET ls == Split(msg, "\n") IN ls[Len(ls)]

SnippetBuilt == Returned /\ SnippetCase /\ LocByte.val >= 1 /\ result.kind = "error"

\* C6 as stated: the trailing context line of the snippet is not the line right after
\* the fault line but the line two past the fault line's 0-based index (k-1)+2.
C6_TrailingLineTwoPast ==
    (SnippetBuilt /\ InRange(Slice(TextLines), (LocLine.val - 1) + 2)) =>
        LastLine(result.msg) = Trim(Slice(TextLines)[(LocLine.val - 1) + 2], "\t")

\* C6 amended: the trailing context line of the snippet is the line immediately
\* following the fault line: 1-based line k+1, the element at 0-based index k.
C6_TrailingLineIsNext ==
    SnippetBuilt => LastLine(result.msg) = Trim(TextLines[LocLine.val + 1], "\t")

C6_Witness ==
    /\ SnippetBuilt
    /\ InRange(Slice(TextLines), (LocLine.val - 1) + 2)
    /\ Trim(TextLines[LocLine.val + 1], "\t") # Trim(TextLines[LocLine.val + 2], "\t")
    /\ LastLine(result.msg) = Trim(TextLines[LocLine.val + 1], "\t")

\* the locator's number exceeds n, whether or not it fits the native int
Exceeds(num, n) == ~num.ok \/ num.val > n

\* the call returned an error with this message around the original error
Wraps(msg) ==
    /\ result.kind = "error"
    /\ result.cause = errIn
    /\ result.msg = msg
    /\ result.text = msg \o <<": ">> \o errIn

\* C5 as stated: no locator gives "cant parse error message"; a line number above the
\* number of lines gives "line num not found" with both numbers; a column above the
\* length of line k gives "byte num not found in line"; each wraps the original.
C5_SubFailuresAsStated ==
    Returned =>
        /\ ~HasLocator => Wraps(<<"cant parse error message">>)
        /\ (HasLocator /\ Exceeds(LocLine, NumLines)) =>
              Wraps(<<"line num ">> \o TrimLeft(FindStringSubmatch(errIn)[2], "0")
                        \o <<" not found (total ">> \o Itoa(NumLines) \o <<")">>)
        /\ (HasLocator /\ LocLine.ok /\ LocLine.val \in 1..NumLines
                /\ Exceeds(LocByte, Len(TextLines[LocLine.val]))) =>
              Wraps(<<"byte num not found in line: ">> \o TextLines[LocLine.val])

\* C5 amended: as stated for a line number and a column that fit the native int; a
\* line number that does not fit gives "can't unparse error line num", a column that
\* does not fit (on an existing line) "can't unparse error byte num in line"; each
\* of the five errors wraps the original.
C5_SubFailures ==
    Returned =>
        /\ ~HasLocator => Wraps(<<"cant parse error message">>)
        /\ (HasLocator /\ ~LocLine.ok) => Wraps(<<"can't unparse error line num">>)
        /\ (HasLocator /\ LocLine.ok /\ LocLine.val > NumLines) =>
              Wraps(<<"line num ">> \o Itoa(LocLine.val) \o <<" not found (total ">>
                        \o Itoa(NumLines) \o <<")">>)
        /\ (HasLocator /\ LocLine.ok /\ LocLine.val \in 1..NumLines /\ ~LocByte.ok) =>
              Wraps(<<"can't unparse error byte num in line: ">> \o TextLines[LocLine.val])
        /\ (HasLocator /\ LocLine.ok /\ LocLine.val \in 1..NumLines
                /\ LocByte.ok /\ LocByte.val > Len(TextLines[LocLine.val])) =>
              Wraps(<<"byte num not found in line: ">> \o TextLines[LocLine.val])

C5_Witness ==
    /\ Returned
    /\ HasLocator
    /\ LocLine.ok
    /\ LocLine.val > NumLines
    /\ NumLines >= 2
    /\ result.kind = "error"
    /\ result.cause = errIn

\* C10: for every text and every message with a locator of non-negative integers,
\* k = 0, k = 1, k = N and c = 0 included, ErrorLine returns an error wrapping the
\* original and raises no index-out-of-range or negative-repeat-count fault.
C10_Total ==
    (Returned /\ HasLocator) => (result.kind = "error" /\ result.cause = errIn)

====
